---- MODULE Spec2Model ----
(***************************************************************************)
(* Model of src/src/pattern.rs: the PatternMatch record, the               *)
(* PatternMatcher trait (one required primitive, find_first_from, and the  *)
(* derived find_first / find_every / find_any / find_all families) and its *)
(* two implementations, for str and for [T].                               *)
(*                                                                         *)
(* A source and a pattern are sequences of units.  Text is modelled over   *)
(* single-unit characters, so that every offset in 0..len is a character   *)
(* boundary; the str backing and the [T] backing then see the same data.   *)
(* A call that indexes out of range panics; a panic is a result kind of    *)
(* its own, distinct from None.                                            *)
(***************************************************************************)
EXTENDS Integers, Sequences, FiniteSets, TLC

(* ------------------------------ bounds --------------------------------- *)
MaxLen == 4
MaxPatLen == 2
MaxListPatLen == 1
MaxPats == 2
MaxMatches == 5

Units == {1, 2}

RECURSIVE SeqsUpTo(_, _)
SeqsUpTo(S, n) ==
    IF n = 0 THEN {<<>>}
    ELSE LET shorter == SeqsUpTo(S, n - 1)
         IN  shorter \cup {Append(s, x) : s \in {t \in shorter : Len(t) = n - 1}, x \in S}

Sources == SeqsUpTo(Units, MaxLen)
Patterns == SeqsUpTo(Units, MaxPatLen)
ListPatterns == SeqsUpTo(Units, MaxListPatLen)
PatternLists == SeqsUpTo(ListPatterns, MaxPats)
Backings == {"str", "slice"}

(* --------------------------- PatternMatch ------------------------------ *)
PatternMatch(index, length, slice) ==
    [index |-> index, length |-> length, slice |-> slice]

start(m) == m.index

end(m) == m.index + m.length

(* std::ops::Range: half-open, given by its two ends *)
range(m) == [start |-> m.index, end |-> m.index + m.length]

(* Option / panic results: ms holds the single match or the list of matches *)
None == [kind |-> "None", ms |-> <<>>]
Some(ms) == [kind |-> "Some", ms |-> ms]
Panic == [kind |-> "Panic", ms |-> <<>>]

(* self[from..to), zero-based half-open, as Rust slices index *)
Slice(self, from, to) == SubSeq(self, from + 1, to)

(* -------------------------- impl for str ------------------------------- *)
(* str::find: the smallest unit index at which the needle starts, if any;  *)
(* the empty needle is found at index 0 of any haystack.                   *)
StrFind(haystack, needle) ==
    LET hits == {i \in 0..(Len(haystack) - Len(needle)) :
                    Slice(haystack, i, i + Len(needle)) = needle}
    IN  IF hits = {} THEN [found |-> FALSE, index |-> 0]
        ELSE [found |-> TRUE, index |-> CHOOSE i \in hits : \A j \in hits : i <= j]

(* mutant: the index found in the offset slice is not rebased on the source *)
StrFindFirstFromRelative(self, pattern_str, byte_offset) ==
    IF byte_offset > Len(self) THEN Panic
    ELSE LET f == StrFind(Slice(self, byte_offset, Len(self)), pattern_str)
             byte_len == Len(pattern_str)
         IN  IF f.found
             THEN Some(<<PatternMatch(f.index, byte_len,
                            Slice(self, byte_offset + f.index,
                                  byte_offset + f.index + byte_len))>>)
             ELSE None

StrFindFirstFrom(self, pattern_str, byte_offset) ==
    IF byte_offset > Len(self) THEN Panic
    ELSE LET f == StrFind(Slice(self, byte_offset, Len(self)), pattern_str)
             byte_len == Len(pattern_str)
         IN  IF f.found
             THEN Some(<<PatternMatch(byte_offset + f.index, byte_len,
                            Slice(self, byte_offset + f.index,
                                  byte_offset + f.index + byte_len))>>)
             ELSE None

(* -------------------------- impl for [T] ------------------------------- *)
RECURSIVE SliceScan(_, _, _, _)
SliceScan(self, pattern_slice, byte_offset, compare_start) ==
    LET pattern_len == Len(pattern_slice)
        offset_slice == Slice(self, byte_offset, Len(self))
        compare_end == compare_start + pattern_len
    IN  IF compare_start >= Len(offset_slice) THEN None
        ELSE IF compare_end > Len(offset_slice) THEN None
        ELSE IF Slice(offset_slice, compare_start, compare_end) = pattern_slice
        THEN LET true_index == compare_start + byte_offset
             IN  Some(<<PatternMatch(true_index, pattern_len,
                            Slice(self, true_index, true_index + pattern_len))>>)
        ELSE SliceScan(self, pattern_slice, byte_offset, compare_start + 1)

(* mutant: the scan ignores the offset and starts at the head of the source *)
SliceFindFirstFromHead(self, pattern_slice, byte_offset) ==
    IF byte_offset > Len(self) THEN Panic
    ELSE SliceScan(self, pattern_slice, 0, 0)

SliceFindFirstFrom(self, pattern_slice, byte_offset) ==
    IF byte_offset > Len(self) THEN Panic
    ELSE SliceScan(self, pattern_slice, byte_offset, 0)

(* the primitive, dispatched on the implementing type *)
find_first_from(b, self, pat, byte_offset) ==
    IF b = "str" THEN StrFindFirstFrom(self, pat, byte_offset)
    ELSE SliceFindFirstFrom(self, pat, byte_offset)

(* --------------------------- find_any_from ----------------------------- *)
UsizeMax == 65535

(* first loop: the first match of every pattern that has one, in order *)
RECURSIVE CollectFirsts(_, _, _, _, _)
CollectFirsts(b, self, pats, byte_offset, i) ==
    IF i > Len(pats) THEN Some(<<>>)
    ELSE LET r == find_first_from(b, self, pats[i], byte_offset)
             rest == CollectFirsts(b, self, pats, byte_offset, i + 1)
         IN  IF r.kind = "Panic" \/ rest.kind = "Panic" THEN Panic
             ELSE IF r.kind = "Some" THEN Some(r.ms \o rest.ms)
             ELSE rest

(* mutant: non-strict comparison, the last-seen minimum replaces the first *)
IsEarlierOrEqual(earliest_match, earliest_index, current_match) ==
    earliest_match.kind = "None" \/ current_match.index <= earliest_index

IsEarlier(earliest_match, earliest_index, current_match) ==
    earliest_match.kind = "None" \/ current_match.index < earliest_index

(* second loop: the running earliest match *)
RECURSIVE Earliest(_, _, _, _)
Earliest(found, i, earliest_match, earliest_index) ==
    IF i > Len(found) THEN earliest_match
    ELSE IF IsEarlier(earliest_match, earliest_index, found[i])
         THEN Earliest(found, i + 1, Some(<<found[i]>>), found[i].index)
         ELSE Earliest(found, i + 1, earliest_match, earliest_index)

find_any_from(b, self, pats, byte_offset) ==
    LET found == CollectFirsts(b, self, pats, byte_offset, 1)
    IN  IF found.kind = "Panic" THEN Panic
        ELSE Earliest(found.ms, 1, None, UsizeMax)

(* ------------------------------- state --------------------------------- *)
VARIABLES backing, source, op, pattern, patterns, byte_offset, pc,
          total_offset, matches, pat_idx, all_matches, ret

vars == <<backing, source, op, pattern, patterns, byte_offset, pc,
          total_offset, matches, pat_idx, all_matches, ret>>

Init ==
    /\ backing \in Backings
    /\ source \in Sources
    /\ op = "none"
    /\ pattern = <<>>
    /\ patterns = <<>>
    /\ byte_offset = 0
    /\ pc = "idle"
    /\ total_offset = 0
    /\ matches = <<>>
    /\ pat_idx = 0
    /\ all_matches = <<>>
    /\ ret = None

Offsets == 0..(Len(source) + 1)

Return(r) ==
    /\ ret' = r
    /\ pc' = IF r.kind = "Panic" THEN "panic" ELSE "done"

(* ------------------------ find_first[_from] ---------------------------- *)
FindFirstFrom(P, off) ==
    /\ pc = "idle"
    /\ op' = "find_first_from"
    /\ pattern' = P
    /\ byte_offset' = off
    /\ Return(find_first_from(backing, source, P, off))
    /\ UNCHANGED <<backing, source, patterns, total_offset, matches, pat_idx, all_matches>>

FindFirst(P) ==
    /\ pc = "idle"
    /\ op' = "find_first"
    /\ pattern' = P
    /\ byte_offset' = 0
    /\ Return(find_first_from(backing, source, P, 0))
    /\ UNCHANGED <<backing, source, patterns, total_offset, matches, pat_idx, all_matches>>

(* ------------------------ find_every[_from] ---------------------------- *)
FindEveryFrom(P, off) ==
    /\ pc = "idle"
    /\ op' = "find_every_from"
    /\ pattern' = P
    /\ byte_offset' = off
    /\ total_offset' = off
    /\ matches' = <<>>
    /\ pc' = "every"
    /\ UNCHANGED <<backing, source, patterns, pat_idx, all_matches, ret>>

FindEvery(P) ==
    /\ pc = "idle"
    /\ op' = "find_every"
    /\ pattern' = P
    /\ byte_offset' = 0
    /\ total_offset' = 0
    /\ matches' = <<>>
    /\ pc' = "every"
    /\ UNCHANGED <<backing, source, patterns, pat_idx, all_matches, ret>>

(* mutant: the cursor moves one unit past the start of the match *)
NextCursorOverlap(found_match) == start(found_match) + 1

(* mutant: the cursor moves one unit past the end of the match *)
NextCursorSkip(found_match) == end(found_match) + 1

NextCursor(found_match) == end(found_match)

InAll == op \in {"find_all", "find_all_from"}

(* the loop body, Some arm: advance the cursor and push the match *)
EveryFound ==
    /\ pc = "every"
    /\ Len(matches) < MaxMatches
    /\ LET r == find_first_from(backing, source, pattern, total_offset)
       IN  /\ r.kind = "Some"
           /\ total_offset' = NextCursor(r.ms[1])
           /\ matches' = Append(matches, r.ms[1])
    /\ UNCHANGED <<backing, source, op, pattern, patterns, byte_offset, pc,
                   pat_idx, all_matches, ret>>

EveryResult(found) == IF found = <<>> THEN None ELSE Some(found)

(* find_every_from as a function of its arguments: the same loop, run to its *)
(* return.  A loop still finding matches after MaxMatches of them is cut.   *)
Cut(found) == [kind |-> "Cut", ms |-> found]

RECURSIVE find_every_loop(_, _, _, _, _)
find_every_loop(b, self, pat, cursor, found) ==
    LET r == find_first_from(b, self, pat, cursor)
    IN  IF r.kind = "Panic" THEN Panic
        ELSE IF r.kind = "None" THEN EveryResult(found)
        ELSE IF Len(found) >= MaxMatches THEN Cut(found)
        ELSE find_every_loop(b, self, pat, NextCursor(r.ms[1]), Append(found, r.ms[1]))

find_every_from(b, self, pat, off) == find_every_loop(b, self, pat, off, <<>>)

(* mutant: the newly found list is put in front of the collected ones *)
PrependAll(acc, found_matches) == found_matches \o acc

AppendAll(acc, found_matches) == acc \o found_matches

(* the loop body, None arm: break and return; inside find_all_from the     *)
(* returned list is appended and the pattern loop goes on                  *)
EveryBreak ==
    /\ pc = "every"
    /\ find_first_from(backing, source, pattern, total_offset).kind = "None"
    /\ IF InAll
       THEN /\ all_matches' = AppendAll(all_matches, EveryResult(matches).ms)
            /\ pat_idx' = pat_idx + 1
            /\ pc' = "all"
            /\ UNCHANGED ret
       ELSE /\ Return(EveryResult(matches))
            /\ UNCHANGED <<all_matches, pat_idx>>
    /\ UNCHANGED <<backing, source, op, pattern, patterns, byte_offset,
                   total_offset, matches>>

(* the primitive indexes out of range: the whole call unwinds *)
EveryPanic ==
    /\ pc = "every"
    /\ find_first_from(backing, source, pattern, total_offset).kind = "Panic"
    /\ Return(Panic)
    /\ UNCHANGED <<backing, source, op, pattern, patterns, byte_offset,
                   total_offset, matches, pat_idx, all_matches>>

(* ------------------------- find_any[_from] ----------------------------- *)
FindAnyFrom(Ps, off) ==
    /\ pc = "idle"
    /\ op' = "find_any_from"
    /\ patterns' = Ps
    /\ byte_offset' = off
    /\ Return(find_any_from(backing, source, Ps, off))
    /\ UNCHANGED <<backing, source, pattern, total_offset, matches, pat_idx, all_matches>>

FindAny(Ps) ==
    /\ pc = "idle"
    /\ op' = "find_any"
    /\ patterns' = Ps
    /\ byte_offset' = 0
    /\ Return(find_any_from(backing, source, Ps, 0))
    /\ UNCHANGED <<backing, source, pattern, total_offset, matches, pat_idx, all_matches>>

(* ------------------------- find_all[_from] ----------------------------- *)
FindAllFrom(Ps, off) ==
    /\ pc = "idle"
    /\ op' = "find_all_from"
    /\ patterns' = Ps
    /\ byte_offset' = off
    /\ pat_idx' = 1
    /\ all_matches' = <<>>
    /\ pc' = "all"
    /\ UNCHANGED <<backing, source, pattern, total_offset, matches, ret>>

FindAll(Ps) ==
    /\ pc = "idle"
    /\ op' = "find_all"
    /\ patterns' = Ps
    /\ byte_offset' = 0
    /\ pat_idx' = 1
    /\ all_matches' = <<>>
    /\ pc' = "all"
    /\ UNCHANGED <<backing, source, pattern, total_offset, matches, ret>>

(* next pattern of the collection: enter find_every_from for it *)
AllNext ==
    /\ pc = "all"
    /\ pat_idx <= Len(patterns)
    /\ pattern' = patterns[pat_idx]
    /\ total_offset' = byte_offset
    /\ matches' = <<>>
    /\ pc' = "every"
    /\ UNCHANGED <<backing, source, op, patterns, byte_offset, pat_idx, all_matches, ret>>

(* the collection is exhausted *)
AllReturn ==
    /\ pc = "all"
    /\ pat_idx > Len(patterns)
    /\ Return(EveryResult(all_matches))
    /\ UNCHANGED <<backing, source, op, pattern, patterns, byte_offset,
                   total_offset, matches, pat_idx, all_matches>>

Idle == pc = "idle"

Next ==
    \/ Idle /\ \E P \in Patterns, off \in Offsets : FindFirstFrom(P, off)
    \/ Idle /\ \E P \in Patterns : FindFirst(P)
    \/ Idle /\ \E P \in Patterns, off \in Offsets : FindEveryFrom(P, off)
    \/ Idle /\ \E P \in Patterns : FindEvery(P)
    \/ EveryFound
    \/ EveryBreak
    \/ EveryPanic
    \/ Idle /\ \E Ps \in PatternLists, off \in Offsets : FindAnyFrom(Ps, off)
    \/ Idle /\ \E Ps \in PatternLists : FindAny(Ps)
    \/ Idle /\ \E Ps \in PatternLists, off \in Offsets : FindAllFrom(Ps, off)
    \/ Idle /\ \E Ps \in PatternLists : FindAll(Ps)
    \/ AllNext
    \/ AllReturn

Spec == Init /\ [][Next]_vars

TypeOK ==
    /\ backing \in Backings
    /\ source \in Sources
    /\ op \in {"none", "find_first", "find_first_from", "find_every", "find_every_from",
               "find_any", "find_any_from", "find_all", "find_all_from"}
    /\ pc \in {"idle", "every", "all", "done", "panic"}
    /\ ret.kind \in {"None", "Some", "Panic"}
    /\ byte_offset \in 0..(Len(source) + 1)
    /\ Len(matches) <= MaxMatches

(* ====================== properties of the search ======================= *)
(* P occurs in S at position i *)
Occurs(S, P, i) == i + Len(P) <= Len(S) /\ Slice(S, i, i + Len(P)) = P

FirstOps == {"find_first", "find_first_from"}
EveryOps == {"find_every", "find_every_from"}
AnyOps == {"find_any", "find_any_from"}
AllOps == {"find_all", "find_all_from"}

Returned(ops) == pc = "done" /\ op \in ops

(* C1: a match returned by find_first_from(S, P, offset), in either backing, *)
(* starts at or after offset, has the length of P, covers a window of S     *)
(* equal to P, and no occurrence of P starts in offset..start-1.            *)
C1_FirstMatchIsEarliest ==
    (Returned(FirstOps) /\ ret.kind = "Some") =>
        LET m == ret.ms[1]
        IN  /\ start(m) >= byte_offset
            /\ m.length = Len(pattern)
            /\ end(m) <= Len(source)
            /\ Slice(source, start(m), end(m)) = pattern
            /\ \A i \in byte_offset..(start(m) - 1) : ~Occurs(source, pattern, i)

C1_Witness ==
    /\ Returned({"find_first_from"})
    /\ backing = "slice"
    /\ ret.kind = "Some"
    /\ byte_offset >= 1
    /\ start(ret.ms[1]) > byte_offset
    /\ \E i \in 0..(byte_offset - 1) : Occurs(source, pattern, i)

(* C2: find_first_from(S, P, offset) with offset <= len(S) returns nothing  *)
(* if and only if P occurs at no position i >= offset of S.                 *)
C2_NoneIffNoOccurrence ==
    (Returned(FirstOps) /\ byte_offset <= Len(source)) =>
        (ret.kind = "None" <=>
            ~\E i \in byte_offset..Len(source) : Occurs(source, pattern, i))

(* C3: find_first_from(S, P, offset) with offset > len(S) returns nothing,  *)
(* and does not abort.                                                      *)
C3_OffsetPastEndIsNone ==
    (op = "find_first_from" /\ byte_offset > Len(source)) =>
        (pc = "done" /\ ret.kind = "None")

(* C4: in the list returned by find_every_from, each match starts at or     *)
(* after the end of the one before it, no two matches share an index, and   *)
(* the starts are strictly increasing.                                      *)
C4_EveryNoOverlap ==
    (Returned(EveryOps) /\ ret.kind = "Some") =>
        /\ \A i \in 1..(Len(ret.ms) - 1) :
              /\ start(ret.ms[i + 1]) >= end(ret.ms[i])
              /\ start(ret.ms[i + 1]) > start(ret.ms[i])
        /\ \A i, j \in 1..Len(ret.ms) :
              i < j => \A x \in start(ret.ms[i])..(end(ret.ms[i]) - 1) :
                          ~(start(ret.ms[j]) <= x /\ x < end(ret.ms[j]))

C4_Witness ==
    /\ Returned({"find_every_from"})
    /\ ret.kind = "Some"
    /\ Len(ret.ms) >= 2
    /\ byte_offset >= 1
    /\ Occurs(source, pattern, start(ret.ms[1]) + 1)

(* the first match of each pattern of the collection, by the primitive *)
Firsts == [k \in 1..Len(patterns) |->
              find_first_from(backing, source, patterns[k], byte_offset)]

HitsOf(firsts) == {k \in DOMAIN firsts : firsts[k].kind = "Some"}

(* the earliest-listed pattern among those whose first match starts first *)
WinnerOf(firsts) ==
    LET hits == HitsOf(firsts)
    IN  CHOOSE k \in hits :
            \A j \in hits :
                \/ start(firsts[k].ms[1]) < start(firsts[j].ms[1])
                \/ start(firsts[k].ms[1]) = start(firsts[j].ms[1]) /\ k <= j

(* C5: find_any_from returns nothing iff no pattern of the collection has a *)
(* first match at or after offset; otherwise it returns the first match of  *)
(* the earliest-listed pattern among those whose first match has the        *)
(* smallest start.                                                          *)
C5_AnyEarliestFirstListed ==
    (Returned(AnyOps) /\ byte_offset <= Len(source)) =>
        LET firsts == Firsts
            hits == HitsOf(firsts)
        IN  /\ ret.kind = "None" <=> hits = {}
            /\ hits # {} => ret = firsts[WinnerOf(firsts)]

C5_Witness ==
    /\ Returned({"find_any_from"})
    /\ ret.kind = "Some"
    /\ Len(patterns) = 2
    /\ byte_offset >= 1
    /\ LET firsts == Firsts
       IN  /\ HitsOf(firsts) = {1, 2}
           /\ start(firsts[1].ms[1]) = start(firsts[2].ms[1])
           /\ firsts[1].ms[1].length # firsts[2].ms[1].length

(* what find_every_from returns for each pattern of the collection *)
EveryLists == [k \in 1..Len(patterns) |->
                  find_every_from(backing, source, patterns[k], byte_offset)]

RECURSIVE Concat(_, _)
Concat(lists, k) ==
    IF k > Len(lists) THEN <<>> ELSE lists[k].ms \o Concat(lists, k + 1)

(* C6: the list returned by find_all_from is the concatenation, in          *)
(* collection order, of the lists of find_every_from for each pattern; it   *)
(* is the absent result iff every pattern has zero matches.                 *)
C6_AllIsConcatenation ==
    (Returned(AllOps) /\ byte_offset <= Len(source)) =>
        LET lists == EveryLists
        IN  /\ \A k \in DOMAIN lists : lists[k].kind \in {"None", "Some"}
            /\ ret.ms = Concat(lists, 1)
            /\ ret.kind = "None" <=> \A k \in DOMAIN lists : lists[k].kind = "None"

C6_Witness ==
    /\ Returned({"find_all_from"})
    /\ ret.kind = "Some"
    /\ Len(patterns) = 2
    /\ \A k \in 1..2 : EveryLists[k].kind = "Some"
    /\ \E i \in 1..(Len(ret.ms) - 1) : start(ret.ms[i + 1]) < start(ret.ms[i])

(* C7: every match record returned by one of the eight operations lies      *)
(* within the source, its view is the part of the source it covers, and     *)
(* its accessors give index, index + length and [index, index + length).    *)
C7_MatchWithinSource ==
    pc = "done" =>
        \A i \in 1..Len(ret.ms) :
            LET m == ret.ms[i]
            IN  /\ m.index + m.length <= Len(source)
                /\ m.slice = Slice(source, m.index, m.index + m.length)
                /\ start(m) = m.index
                /\ end(m) = m.index + m.length
                /\ range(m) = [start |-> m.index, end |-> m.index + m.length]

C7_Witness ==
    /\ pc = "done"
    /\ backing = "str"
    /\ op = "find_all_from"
    /\ byte_offset >= 1
    /\ Len(ret.ms) >= 3
    /\ \E i \in 1..Len(ret.ms) : end(ret.ms[i]) = Len(source)

(* C8: the list returned by find_every_from is the greedy left-to-right     *)
(* scan: its first match is find_first_from at offset, each later match is  *)
(* find_first_from at the end of the one before, and no occurrence of P     *)
(* starts at or after the end of the last match.                            *)
C8_EveryIsGreedy ==
    (Returned(EveryOps) /\ byte_offset <= Len(source)) =>
        LET L == ret.ms
            prim(c) == find_first_from(backing, source, pattern, c)
        IN  /\ ret.kind = "None" <=> prim(byte_offset).kind = "None"
            /\ L # <<>> =>
                  /\ prim(byte_offset) = Some(<<L[1]>>)
                  /\ \A i \in 1..(Len(L) - 1) : prim(end(L[i])) = Some(<<L[i + 1]>>)
                  /\ prim(end(L[Len(L)])).kind = "None"
                  /\ \A i \in end(L[Len(L)])..Len(source) : ~Occurs(source, pattern, i)
                  /\ \A i \in byte_offset..Len(source) :
                        Occurs(source, pattern, i) =>
                            \E j \in 1..Len(L) : start(L[j]) <= i /\ i < end(L[j])

(* "aa" in "aaaa": matches at 0 and 2, never at 1 *)
C8_Witness ==
    /\ Returned({"find_every"})
    /\ source = <<1, 1, 1, 1>>
    /\ pattern = <<1, 1>>
    /\ Len(ret.ms) = 2
    /\ start(ret.ms[1]) = 0
    /\ start(ret.ms[2]) = 2

(* C9: each successful call of the primitive in the loop of find_every_from *)
(* strictly advances the cursor, so the loop ends after at most             *)
(* len(S) - offset matches.                                                 *)
C9_CursorAdvances ==
    [][(pc = "every" /\ Len(matches') > Len(matches)) => total_offset' > total_offset]_vars

(* C10: on the same units the text backing and the generic backing give the *)
(* same answer to find_first_from: both nothing, or matches of the same     *)
(* index and length.                                                        *)
C10_BackingsAgree ==
    (Returned(FirstOps) /\ byte_offset <= Len(source)) =>
        LET t == StrFindFirstFrom(source, pattern, byte_offset)
            g == SliceFindFirstFrom(source, pattern, byte_offset)
        IN  /\ ret \in {t, g}
            /\ t.kind = g.kind
            /\ t.kind = "Some" =>
                  /\ t.ms[1].index = g.ms[1].index
                  /\ t.ms[1].length = g.ms[1].length
====
